---- MODULE Spec2Model ----
(***************************************************************************)
(* Model of poc_python_autogen.py: main() resolves the arguments and the   *)
(* API key, reads the requirements and runs ProjectManager.create_project, *)
(* which drives CodeProject.generate_project (three LLM calls, code        *)
(* extraction, syntax validation, two file writes) and run_tests.          *)
(*                                                                         *)
(* Text is a sequence of tokens.  The tokens are the triple backtick, the  *)
(* word python, the identifier character a, an opening parenthesis and a   *)
(* newline; str.split, str.strip and the substring test are computed on    *)
(* these sequences as Python computes them on the strings.                 *)
(***************************************************************************)
EXTENDS Integers, Sequences, FiniteSets, TLC

\* ------------------------------------------------------------------ bounds
MaxLen == 5
MaxBodyLen == 1

\* ------------------------------------------------------------------ tokens
\* T stands for the three backticks of a Markdown fence, P for the word python
T == "BACKTICKS3"
P == "python"
NL == "\n"
FENCE_PYTHON == <<T, P>>
FENCE == <<T>>

Alphabet == {T, P, "a", NL}

TextsUpTo(alphabet, n) == UNION {[1..k -> alphabet] : k \in 0..n}

\* ---------------------------------------------------------- str primitives
IsSpace(c) == c = NL

RECURSIVE LStrip(_)
LStrip(s) ==
    IF s # <<>> /\ IsSpace(Head(s)) THEN LStrip(Tail(s)) ELSE s

RECURSIVE RStrip(_)
RStrip(s) ==
    IF s # <<>> /\ IsSpace(s[Len(s)]) THEN RStrip(SubSeq(s, 1, Len(s) - 1)) ELSE s

Strip(s) == RStrip(LStrip(s))

\* str.find: index of the leftmost occurrence of sep in s, 0 when there is none
Find(s, sep) ==
    LET hits == {i \in 1..(Len(s) - Len(sep) + 1) : SubSeq(s, i, i + Len(sep) - 1) = sep}
    IN  IF hits = {} THEN 0 ELSE CHOOSE i \in hits : \A j \in hits : i <= j

Contains(s, sep) == Find(s, sep) # 0

\* str.split(sep): the segments between the leftmost non-overlapping occurrences
RECURSIVE Split(_, _)
Split(s, sep) ==
    LET i == Find(s, sep)
    IN  IF i = 0 THEN <<s>>
        ELSE <<SubSeq(s, 1, i - 1)>> \o Split(SubSeq(s, i + Len(sep), Len(s)), sep)

\* ---------------------------------------------- CodeProject pure functions
\* the condition of the list comprehension of extract_code_from_response
IsCodeBlock(block) == Strip(block) # <<>> /\ Contains(block, FENCE)

RECURSIVE KeepCodeBlocks(_)
KeepCodeBlocks(blocks) ==
    IF blocks = <<>> THEN <<>>
    ELSE IF IsCodeBlock(Head(blocks))
           THEN <<Head(blocks)>> \o KeepCodeBlocks(Tail(blocks))
           ELSE KeepCodeBlocks(Tail(blocks))

\* the list comprehension of extract_code_from_response
code_blocks(response) == KeepCodeBlocks(Split(response, FENCE_PYTHON))

\* extract_code_from_response raises ValueError("No code was generated")
extract_raises(response) == code_blocks(response) = <<>>

\* the value extract_code_from_response returns when it does not raise
extract_code_from_response(response) ==
    Strip(Split(code_blocks(response)[1], FENCE)[1])

\* ast.parse accepts every text of identifiers and newlines, and rejects an
\* unclosed parenthesis and a backtick with SyntaxError
validate_python_code(code) ==
    \A i \in 1..Len(code) : code[i] # "(" /\ code[i] # T


\* ------------------------------------------------------------ input spaces
NONE == "<none>"
Keys == {NONE, "", "sk"}
\* Python truthiness of an optional string: None and "" are falsy
Truthy(v) == v # NONE /\ v # ""

MAIN_PY == "main.py"
TEST_MAIN_PY == "test_main.py"
NoFiles == [f \in {} |-> <<>>]
OLD == <<"a">>
Workspaces ==
    { [exists |-> FALSE, files |-> NoFiles],
      [exists |-> TRUE,  files |-> NoFiles],
      [exists |-> TRUE,  files |-> [f \in {MAIN_PY, TEST_MAIN_PY} |-> OLD]] }

REQUIREMENTS == <<"a">>

\* replies of the remote model
Bodies == TextsUpTo({"a", "("}, MaxBodyLen)
Preambles == {<<>>, <<"a", NL>>}
FencedReply(pre, body) == pre \o <<T, P, NL>> \o body \o <<NL, T>>
Unfenced == {<<>>, <<"a">>, <<"a", T, "a">>, <<T, P, "a">>}
Responses == {FencedReply(pre, b) : pre \in Preambles, b \in Bodies} \cup Unfenced
ReviewResponses == {<<"a">>, FencedReply(<<>>, <<"a">>)}
ResponsesFor(role) == IF role = "code_reviewer" THEN ReviewResponses ELSE Responses

PostOutcomes == {"ok", "transport_error", "http_error", "malformed_body"}
WriteOutcomes == {"ok", "makedirs_error", "open_error", "write_error"}

\* the order of the steps of create_project
PipelineOrder ==
    << "code_writer", "extract_code", "validate", "write_main", "code_reviewer",
       "test_writer", "extract_test", "write_test", "run_tests" >>

\* ------------------------------------------------------------------- state
VARIABLES
    argv,         \* the command line: how argparse takes it, --api-key, -r
    env_key,      \* OPENROUTER_API_KEY
    fs0,          \* the workspace before the process started
    ws_exists,    \* the workspace directory exists
    fs,           \* the files of the workspace: name -> content
    pc,           \* the next step of main()
    api_key,      \* main's api_key
    req_read,     \* read_requirements opened the requirements file
    locals,       \* generate_project's locals that are bound: name -> text
    posts,        \* the calls of requests.post, in order
    writes,       \* the calls of write_code_to_file, in order
    steps,        \* the steps of create_project that were started, in order
    failed,       \* the step that raised, or NONE
    exc,          \* the message of the exception that was raised, or NONE
    handlers,     \* the except clauses the exception went through, in order
    stdout,       \* what was printed
    exit_status   \* the exit status of the process, -1 while it runs

vars == << argv, env_key, fs0, ws_exists, fs, pc, api_key, req_read, locals,
           posts, writes, steps, failed, exc, handlers, stdout, exit_status >>

inputs == << argv, env_key, fs0 >>

Line(text) == [line |-> text, arg |-> <<>>]
LineWith(text, a) == [line |-> text, arg |-> a]

Bind(f, name, value) == [n \in DOMAIN f \cup {name} |-> IF n = name THEN value ELSE f[n]]

Start ==
    /\ ws_exists = fs0.exists
    /\ fs = fs0.files
    /\ api_key = NONE
    /\ req_read = FALSE
    /\ posts = <<>>
    /\ writes = <<>>
    /\ steps = <<>>
    /\ failed = NONE
    /\ exc = NONE
    /\ handlers = <<>>
    /\ stdout = <<>>
    /\ exit_status = -1

Init ==
    /\ argv \in [kind : {"ok", "usage_error", "help"}, api_key : Keys,
                 requirements : {"inline", "file", "unreadable_file"}]
    /\ env_key \in Keys
    /\ fs0 \in Workspaces
    /\ pc = "parse_arguments"
    /\ locals = NoFiles
    /\ Start

\* ------------------------------------------------------------------ main()
\* parse_arguments: argparse exits with status 2 on a usage error (-r is
\* required) and with status 0 after printing the help
ParseArguments ==
    /\ pc = "parse_arguments"
    /\ CASE argv.kind = "ok" ->
              /\ pc' = "api_key"
              /\ UNCHANGED << stdout, exit_status >>
         [] argv.kind = "usage_error" ->
              /\ pc' = "exited"
              /\ stdout' = Append(stdout, Line("usage error"))
              /\ exit_status' = 2
         [] argv.kind = "help" ->
              /\ pc' = "exited"
              /\ stdout' = Append(stdout, Line("help"))
              /\ exit_status' = 0
    /\ UNCHANGED << inputs, ws_exists, fs, api_key, req_read, locals, posts,
                    writes, steps, failed, exc, handlers >>

\* api_key = args.api_key or os.getenv('OPENROUTER_API_KEY')
ResolvedKey(flag, env) == IF Truthy(flag) THEN flag ELSE env

\* mutation of ResolveApiKey: the test is "api_key is None" instead of
\* "not api_key", so an empty key passes
ResolveApiKey_isNone ==
    /\ pc = "api_key"
    /\ api_key' = ResolvedKey(argv.api_key, env_key)
    /\ IF api_key' = NONE
         THEN /\ stdout' = Append(stdout, Line("Error: OpenRouter API key not provided"))
              /\ exit_status' = 1
              /\ pc' = "exited"
         ELSE /\ pc' = "read_requirements"
              /\ UNCHANGED << stdout, exit_status >>
    /\ UNCHANGED << inputs, ws_exists, fs, req_read, locals, posts, writes,
                    steps, failed, exc, handlers >>

ResolveApiKey ==
    /\ pc = "api_key"
    /\ api_key' = ResolvedKey(argv.api_key, env_key)
    /\ IF ~Truthy(api_key')
         THEN /\ stdout' = Append(stdout, Line("Error: OpenRouter API key not provided"))
              /\ exit_status' = 1
              /\ pc' = "exited"
         ELSE /\ pc' = "read_requirements"
              /\ UNCHANGED << stdout, exit_status >>
    /\ UNCHANGED << inputs, ws_exists, fs, req_read, locals, posts, writes,
                    steps, failed, exc, handlers >>

\* read_requirements: nothing catches what open() or read() raises
ReadRequirements ==
    /\ pc = "read_requirements"
    /\ CASE argv.requirements = "inline" ->
              /\ pc' = "create_project"
              /\ UNCHANGED << req_read, failed, exc, exit_status >>
         [] argv.requirements = "file" ->
              /\ req_read' = TRUE
              /\ pc' = "create_project"
              /\ UNCHANGED << failed, exc, exit_status >>
         [] argv.requirements = "unreadable_file" ->
              /\ req_read' = TRUE
              /\ failed' = "read_requirements"
              /\ exc' = "OSError"
              /\ exit_status' = 1
              /\ pc' = "exited"
    /\ UNCHANGED << inputs, ws_exists, fs, api_key, locals, posts, writes,
                    steps, handlers, stdout >>

\* ---------------------------------------------------------- create_project
EnterCreateProject ==
    /\ pc = "create_project"
    /\ stdout' = Append(stdout, Line("Generating project..."))
    /\ pc' = "code_writer"
    /\ UNCHANGED << inputs, ws_exists, fs, api_key, req_read, locals, posts,
                    writes, steps, failed, exc, handlers, exit_status >>

\* mutation of Raise: create_project has no except clause, the exception
\* leaves main() and the interpreter exits with status 1
Raise_propagates(step, message, inner, out) ==
    /\ failed' = step
    /\ exc' = message
    /\ handlers' = inner
    /\ stdout' = out
    /\ exit_status' = 1
    /\ pc' = "exited"

\* an exception leaves generate_project, reaches the except clause of
\* create_project, is printed, and main() returns
Raise(step, message, inner, out) ==
    /\ failed' = step
    /\ exc' = message
    /\ handlers' = inner \o <<"create_project">>
    /\ stdout' = Append(out, LineWith("Error creating project", <<message>>))
    /\ exit_status' = 0
    /\ pc' = "exited"


\* mutation of get_llm_response: a failed request is posted a second time
\* before the error is raised
get_llm_response_retry(role, prompt, name, next, echo) ==
    /\ pc = role
    /\ steps' = Append(steps, role)
    /\ \E outcome \in PostOutcomes :
         IF outcome = "ok"
           THEN \E r \in ResponsesFor(role) :
                  /\ posts' = Append(posts, [role |-> role, prompt |-> prompt])
                  /\ locals' = Bind(locals, name, r)
                  /\ stdout' = IF echo
                                 THEN stdout \o <<Line("Code Review:"), LineWith("review", r)>>
                                 ELSE stdout
                  /\ pc' = next
                  /\ UNCHANGED << failed, exc, handlers, exit_status >>
           ELSE /\ posts' = posts \o << [role |-> role, prompt |-> prompt],
                                        [role |-> role, prompt |-> prompt] >>
                /\ Raise(role, "Error generating response", <<"generate_response">>, stdout)
                /\ UNCHANGED locals
    /\ UNCHANGED << inputs, ws_exists, fs, api_key, req_read, writes >>

\* OpenRouterLLM.generate_response through CodeProject.get_llm_response: one
\* requests.post; a transport error, raise_for_status or a body without
\* choices[0].message.content is re-raised as one Exception
get_llm_response(role, prompt, name, next, echo) ==
    /\ pc = role
    /\ steps' = Append(steps, role)
    /\ posts' = Append(posts, [role |-> role, prompt |-> prompt])
    /\ \E outcome \in PostOutcomes :
         IF outcome = "ok"
           THEN \E r \in ResponsesFor(role) :
                  /\ locals' = Bind(locals, name, r)
                  /\ stdout' = IF echo
                                 THEN stdout \o <<Line("Code Review:"), LineWith("review", r)>>
                                 ELSE stdout
                  /\ pc' = next
                  /\ UNCHANGED << failed, exc, handlers, exit_status >>
           ELSE /\ Raise(role, "Error generating response", <<"generate_response">>, stdout)
                /\ UNCHANGED locals
    /\ UNCHANGED << inputs, ws_exists, fs, api_key, req_read, writes >>

\* mutation of FileAfterWrite: the file is opened with "a" instead of "w"
FileAfterWrite_append(files, filename, code) ==
    Bind(files, filename,
         (IF filename \in DOMAIN files THEN files[filename] ELSE <<>>) \o code)

\* open(path, "w") followed by f.write(code): the file holds code
FileAfterWrite(files, filename, code) == Bind(files, filename, code)

\* write_code_to_file: os.makedirs(exist_ok=True), open(..., "w"), f.write
write_code_to_file(code, filename, step, next) ==
    /\ pc = step
    /\ steps' = Append(steps, step)
    /\ \E outcome \in WriteOutcomes :
         /\ outcome = "makedirs_error" => ~ws_exists
         /\ writes' = Append(writes, [file |-> filename, text |-> code, outcome |-> outcome])
         /\ ws_exists' = IF outcome = "makedirs_error" THEN ws_exists ELSE TRUE
         /\ fs' = CASE outcome = "ok" -> FileAfterWrite(fs, filename, code)
                    [] outcome = "write_error" -> Bind(fs, filename, <<>>)
                    [] OTHER -> fs
         /\ IF outcome = "ok"
              THEN /\ pc' = next
                   /\ UNCHANGED << failed, exc, handlers, stdout, exit_status >>
              ELSE Raise(step, "OSError", <<>>, stdout)
    /\ UNCHANGED << inputs, api_key, req_read, locals, posts >>

\* mutation of extract_step: the ValueError is swallowed and the whole reply
\* is used as the code
extract_step_fallback(step, from, name, next) ==
    /\ pc = step
    /\ steps' = Append(steps, step)
    /\ IF extract_raises(locals[from])
         THEN /\ failed' = step
              /\ exc' = "No code was generated"
              /\ handlers' = <<"generate_project">>
              /\ locals' = Bind(locals, name, locals[from])
         ELSE /\ locals' = Bind(locals, name, extract_code_from_response(locals[from]))
              /\ UNCHANGED << failed, exc, handlers >>
    /\ pc' = next
    /\ UNCHANGED << inputs, ws_exists, fs, api_key, req_read, posts, writes,
                    stdout, exit_status >>

\* code = self.extract_code_from_response(...), or its ValueError
extract_step(step, from, name, next) ==
    /\ pc = step
    /\ steps' = Append(steps, step)
    /\ IF extract_raises(locals[from])
         THEN /\ Raise(step, "No code was generated", <<>>, stdout)
              /\ UNCHANGED locals
         ELSE /\ locals' = Bind(locals, name, extract_code_from_response(locals[from]))
              /\ pc' = next
              /\ UNCHANGED << failed, exc, handlers, stdout, exit_status >>
    /\ UNCHANGED << inputs, ws_exists, fs, api_key, req_read, posts, writes >>

\* ------------------------------------------------------- generate_project
CodeWriter ==
    get_llm_response("code_writer", REQUIREMENTS, "code_response", "extract_code", FALSE)

ExtractCode ==
    extract_step("extract_code", "code_response", "code", "validate")

\* mutation of ValidateCode: the result of the validator is ignored
ValidateCode_accepts ==
    /\ pc = "validate"
    /\ steps' = Append(steps, "validate")
    /\ pc' = "write_main"
    /\ UNCHANGED << inputs, ws_exists, fs, api_key, req_read, locals, posts,
                    writes, failed, exc, handlers, stdout, exit_status >>

\* if not self.validate_python_code(code): raise ValueError(...)
ValidateCode ==
    /\ pc = "validate"
    /\ steps' = Append(steps, "validate")
    /\ IF validate_python_code(locals["code"])
         THEN /\ pc' = "write_main"
              /\ UNCHANGED << failed, exc, handlers, stdout, exit_status >>
         ELSE Raise("validate", "Generated code is not valid Python",
                    <<"validate_python_code">>, stdout)
    /\ UNCHANGED << inputs, ws_exists, fs, api_key, req_read, locals, posts, writes >>

WriteMain ==
    /\ pc = "write_main"
    /\ write_code_to_file(locals["code"], MAIN_PY, "write_main", "code_reviewer")

CodeReviewer ==
    /\ pc = "code_reviewer"
    /\ get_llm_response("code_reviewer", locals["code"], "review_response", "test_writer", TRUE)

TestWriter ==
    /\ pc = "test_writer"
    /\ get_llm_response("test_writer", locals["code"], "test_response", "extract_test", FALSE)

\* mutation of ExtractTest: the reply of the test writer is stored unextracted
ExtractTest_raw ==
    /\ pc = "extract_test"
    /\ steps' = Append(steps, "extract_test")
    /\ locals' = Bind(locals, "test_code", locals["test_response"])
    /\ pc' = "write_test"
    /\ UNCHANGED << inputs, ws_exists, fs, api_key, req_read, posts, writes,
                    failed, exc, handlers, stdout, exit_status >>

ExtractTest ==
    extract_step("extract_test", "test_response", "test_code", "write_test")

\* mutation of WriteTest: the tests are never written
WriteTest_skipped ==
    /\ pc = "write_test"
    /\ steps' = Append(steps, "write_test")
    /\ pc' = "run_tests"
    /\ UNCHANGED << inputs, ws_exists, fs, api_key, req_read, locals, posts,
                    writes, failed, exc, handlers, stdout, exit_status >>

WriteTest ==
    /\ pc = "write_test"
    /\ write_code_to_file(locals["test_code"], TEST_MAIN_PY, "write_test", "run_tests")

\* run_tests catches what pytest.main raises and prints it; create_project
\* then prints that the generation completed
RunTests ==
    /\ pc = "run_tests"
    /\ steps' = Append(steps, "run_tests")
    /\ \E outcome \in {"returns", "raises"} :
         IF outcome = "returns"
           THEN /\ stdout' = stdout \o <<Line("Running tests..."),
                                          Line("Project generation completed!")>>
                /\ UNCHANGED << failed, exc, handlers >>
           ELSE /\ failed' = "run_tests"
                /\ exc' = "pytest error"
                /\ handlers' = <<"run_tests">>
                /\ stdout' = stdout \o <<Line("Running tests..."),
                                          LineWith("Error running tests", <<"pytest error">>),
                                          Line("Project generation completed!")>>
    /\ exit_status' = 0
    /\ pc' = "exited"
    /\ UNCHANGED << inputs, ws_exists, fs, api_key, req_read, locals, posts, writes >>

Next ==
    \/ ParseArguments
    \/ ResolveApiKey
    \/ ReadRequirements
    \/ EnterCreateProject
    \/ CodeWriter
    \/ ExtractCode
    \/ ValidateCode
    \/ WriteMain
    \/ CodeReviewer
    \/ TestWriter
    \/ ExtractTest
    \/ WriteTest
    \/ RunTests

Spec == Init /\ [][Next]_vars

\* ------------------------------------- extraction over every bounded reply
\* create_project entered with the code_writer reply already received
InitExtract ==
    /\ argv = [kind |-> "ok", api_key |-> "sk", requirements |-> "inline"]
    /\ env_key = NONE
    /\ fs0 = [exists |-> FALSE, files |-> NoFiles]
    /\ Start
    /\ pc = "extract_code"
    /\ \E r \in TextsUpTo(Alphabet, MaxLen) :
         locals = Bind(NoFiles, "code_response", r)

NextExtract == ExtractCode

SpecExtract == InitExtract /\ [][NextExtract]_vars


\* -------------------------------------------------- vocabulary of the claims
Last(q) == q[Len(q)]
Range(q) == {q[i] : i \in 1..Len(q)}
IsPrefix(q, r) == Len(q) <= Len(r) /\ q = SubSeq(r, 1, Len(q))
NoDuplicates(q) == \A i, j \in 1..Len(q) : q[i] = q[j] => i = j

Exited == pc = "exited"
PipelineSteps == Range(PipelineOrder)
Roles == {"code_writer", "code_reviewer", "test_writer"}
RoleOrder == <<"code_writer", "code_reviewer", "test_writer">>
PostRoles == [i \in 1..Len(posts) |-> posts[i].role]

NoCredential == argv.api_key \in {NONE, ""} /\ env_key \in {NONE, ""}

WritesTo(f) == {i \in 1..Len(writes) : writes[i].file = f}
WrittenOk(f) == \E i \in WritesTo(f) : writes[i].outcome = "ok"
Bound(name) == name \in DOMAIN locals

\* a fenced block: an opening marker whose next fence marker closes it (is
\* not itself the start of another opening marker)
NextFence(r, i) ==
    LET later == {j \in (i + 2)..Len(r) : r[j] = T}
    IN  IF later = {} THEN 0 ELSE CHOOSE j \in later : \A m \in later : j <= m
IsClosing(r, j) == j # 0 /\ (j = Len(r) \/ r[j + 1] # P)
Openings(r) ==
    {i \in 1..(Len(r) - 1) : /\ SubSeq(r, i, i + 1) = FENCE_PYTHON
                             /\ IsClosing(r, NextFence(r, i))}
IsFenced(r) == Openings(r) # {}
FirstFencedBlock(r) ==
    LET i == CHOOSE k \in Openings(r) : \A m \in Openings(r) : k <= m
    IN  Strip(SubSeq(r, i + 2, NextFence(r, i) - 1))

\* C1: the steps of a run are a prefix of the fixed sequence, a step that
\* raised is the last one, and the test runner is invoked only after main.py
\* and test_main.py were both written in that run
C1_StepsArePrefix ==
    /\ IsPrefix(steps, PipelineOrder)
    /\ failed \in PipelineSteps => (steps # <<>> /\ Last(steps) = failed)
    /\ \A i \in 1..Len(steps) :
         steps[i] = "run_tests" => WrittenOk(MAIN_PY) /\ WrittenOk(TEST_MAIN_PY)

C1_Witness ==
    Exited /\ steps = PipelineOrder /\ failed = NONE

\* C2 as stated: the exit status is non-zero only when no credential is
\* resolvable
C2_Original ==
    exit_status \notin {-1, 0} => NoCredential

\* C2 amended: the exit status is non-zero only after a usage error of the
\* argument parser, a missing credential or an exception of
\* read_requirements; a failure of a step of create_project is printed and
\* the process exits with status 0
C2_ExitStatus ==
    /\ exit_status \notin {-1, 0} =>
         \/ argv.kind = "usage_error" /\ exit_status = 2
         \/ argv.kind = "ok" /\ NoCredential /\ exit_status = 1
         \/ failed = "read_requirements" /\ exit_status = 1
    /\ failed \in PipelineSteps =>
         /\ exit_status = 0
         /\ \E i \in 1..Len(stdout) : stdout[i].arg = <<exc>>

C2_Witness ==
    Exited /\ failed = "validate" /\ exit_status = 0

\* C3 as stated: without a credential the process reports an error and exits
\* with a non-zero status, having posted, read and written nothing
C3_Original ==
    (Exited /\ NoCredential) =>
        /\ exit_status # 0
        /\ stdout # <<>>
        /\ posts = <<>> /\ ~req_read /\ writes = <<>>
        /\ fs = fs0.files /\ ws_exists = fs0.exists

\* C3 amended: when the arguments parse and no credential is resolvable the
\* process prints the missing-key error and exits with status 1; and no run
\* without a credential posts, reads the requirements file or touches the
\* workspace
C3_NoCredential ==
    /\ (Exited /\ NoCredential /\ argv.kind = "ok") =>
          /\ exit_status = 1
          /\ stdout = <<Line("Error: OpenRouter API key not provided")>>
    /\ NoCredential =>
          /\ posts = <<>> /\ ~req_read /\ writes = <<>> /\ steps = <<>>
          /\ fs = fs0.files /\ ws_exists = fs0.exists

C3_Witness ==
    Exited /\ NoCredential /\ argv.kind = "ok" /\ exit_status = 1
           /\ argv.requirements = "file"

\* C4: for a reply with a fenced block, extraction returns the text between
\* the opening fence of the first fenced block and its closing fence, trimmed
C4_ExtractsFirstBlock ==
    (Bound("code_response") /\ "extract_code" \in Range(steps)
        /\ IsFenced(locals["code_response"])) =>
            /\ failed = NONE
            /\ Bound("code")
            /\ locals["code"] = FirstFencedBlock(locals["code_response"])

\* C5: for a reply without a complete fenced block, extraction raises and
\* returns no text
C5_NoBlockRaises ==
    (Bound("code_response") /\ "extract_code" \in Range(steps)
        /\ ~IsFenced(locals["code_response"])) =>
            /\ failed = "extract_code"
            /\ exc = "No code was generated"
            /\ ~Bound("code")

Same(f) ==
    IF f \in DOMAIN fs0.files
      THEN f \in DOMAIN fs /\ fs[f] = fs0.files[f]
      ELSE f \notin DOMAIN fs

\* C6 as stated: after a run of create_project neither file holds what it
\* held before the run
C6_Original ==
    (Exited /\ steps # <<>>) => ~Same(MAIN_PY) /\ ~Same(TEST_MAIN_PY)

\* C6 amended: a write that completes leaves the file holding exactly the
\* text extracted in that run, whatever it held before; a file whose write
\* the run never reached is as it was before the run
C6_Overwrite ==
    /\ WrittenOk(MAIN_PY) => MAIN_PY \in DOMAIN fs /\ fs[MAIN_PY] = locals["code"]
    /\ WrittenOk(TEST_MAIN_PY) =>
          TEST_MAIN_PY \in DOMAIN fs /\ fs[TEST_MAIN_PY] = locals["test_code"]
    /\ \A f \in {MAIN_PY, TEST_MAIN_PY} : WritesTo(f) = {} => Same(f)

C6_Witness ==
    /\ Exited /\ fs0.files # NoFiles
    /\ WrittenOk(MAIN_PY) /\ fs[MAIN_PY] # OLD
    /\ WritesTo(TEST_MAIN_PY) = {} /\ fs[TEST_MAIN_PY] = OLD

AllRepliesFenced ==
    /\ Bound("code_response") /\ IsFenced(locals["code_response"])
    /\ Bound("review_response") /\ IsFenced(locals["review_response"])
    /\ Bound("test_response") /\ IsFenced(locals["test_response"])

ExactlyTheTwoFiles ==
    /\ DOMAIN fs = {MAIN_PY, TEST_MAIN_PY}
    /\ fs[MAIN_PY] = extract_code_from_response(locals["code_response"])
    /\ fs[TEST_MAIN_PY] = extract_code_from_response(locals["test_response"])

C8_Original ==
    /\ NoDuplicates(steps)
    /\ failed \in PipelineSteps =>
          /\ Exited /\ Last(steps) = failed
          /\ Last(handlers) = "create_project"

\* C8 amended: a step that raises ends the sequence and no step runs twice;
\* an exception of a step of generate_project ends in the except clause of
\* create_project, which prints it; an exception of the test runner is caught
\* and printed by run_tests, and create_project then prints its completion
C8_AbortNoRetry ==
    /\ NoDuplicates(steps)
    /\ Len(posts) = Cardinality(Range(steps) \cap Roles)
    /\ Len(writes) = Cardinality(Range(steps) \cap {"write_main", "write_test"})
    /\ failed \in PipelineSteps => Exited /\ Last(steps) = failed
    /\ failed \in PipelineSteps \ {"run_tests"} =>
          /\ Last(handlers) = "create_project"
          /\ Last(stdout) = LineWith("Error creating project", <<exc>>)
    /\ failed = "run_tests" =>
          /\ handlers = <<"run_tests">>
          /\ LineWith("Error running tests", <<exc>>) \in Range(stdout)
          /\ Last(stdout) = Line("Project generation completed!")

C8_Witness ==
    Exited /\ failed = "write_main" /\ Len(posts) = 1 /\ Len(writes) = 1

\* C9: main.py is written only with text the validator accepted; a rejected
\* text ends the run with nothing written, one POST and no test run; the test
\* code is written as extracted, with no step between extraction and write
C9_ValidatedBeforeWrite ==
    /\ \A i \in WritesTo(MAIN_PY) :
          /\ validate_python_code(writes[i].text)
          /\ writes[i].text = locals["code"]
    /\ failed = "validate" =>
          /\ ~validate_python_code(locals["code"])
          /\ writes = <<>> /\ fs = fs0.files /\ ws_exists = fs0.exists
          /\ PostRoles = <<"code_writer">>
          /\ "run_tests" \notin Range(steps)
    /\ \A i \in WritesTo(TEST_MAIN_PY) : writes[i].text = locals["test_code"]
    /\ pc = "write_test" => Last(steps) = "extract_test"

C9_Witness ==
    /\ WrittenOk(MAIN_PY) /\ WrittenOk(TEST_MAIN_PY)
    /\ ~validate_python_code(fs[TEST_MAIN_PY])

ReplyName(role) ==
    CASE role = "code_writer" -> "code_response"
      [] role = "code_reviewer" -> "review_response"
      [] role = "test_writer" -> "test_response"

\* C10: every call posts exactly once; a failed call raises the one generic
\* error, binds no reply and is followed by no POST; so the POSTs of a run
\* are a prefix of code_writer, code_reviewer, test_writer
C10_OnePostPerCall ==
    /\ IsPrefix(PostRoles, RoleOrder)
    /\ Len(posts) = Cardinality(Range(steps) \cap Roles)
    /\ \A i \in 1..Len(steps) :
          steps[i] \in Roles =>
             Cardinality({j \in 1..Len(posts) : posts[j].role = steps[i]}) = 1
    /\ failed \in Roles =>
          /\ exc = "Error generating response"
          /\ handlers = <<"generate_response", "create_project">>
          /\ ~Bound(ReplyName(failed))
          /\ Last(posts).role = failed
          /\ Exited

C10_Witness ==
    Exited /\ failed = "test_writer" /\ Len(posts) = 3

====
